---- MODULE Spec2Model ----
(***************************************************************************)
(* Model of the criterion evaluator of src/grader.py (class AutoGrader):   *)
(* _evaluate_criterion and the strategies it dispatches to (_ai_review,    *)
(* _check_syntax, _check_python_syntax, _check_microbit_syntax,            *)
(* _check_output), of concurrent calls of _check_output, and of grade()   *)
(* of the Codio grading script in the same file.                           *)
(*                                                                         *)
(* Text is a sequence of one-character strings.  Numbers that Python       *)
(* computes with "/" are exact fractions [n, d] in lowest terms.  A        *)
(* feedback string is the sequence of its pieces (literal message parts    *)
(* and characters), in order.                                              *)
(***************************************************************************)
EXTENDS Integers, Sequences, FiniteSets, TLC

(***************************************************************************)
(* Bounds of the model.                                                    *)
(***************************************************************************)
MaxCriteria == 2
MaxPoints == 3
MaxRespLen == 4
MaxOutLen == 3
MaxElems == 2
MaxLines == 2

(***************************************************************************)
(* Numbers.                                                                *)
(***************************************************************************)
Abs(k) == IF k < 0 THEN -k ELSE k

RECURSIVE GCD(_, _)
GCD(a, b) == IF b = 0 THEN a ELSE GCD(b, a % b)

\* n / d, d > 0, in lowest terms.
Rat(n, d) == LET g == GCD(Abs(n), d) IN [n |-> n \div g, d |-> d \div g]

RInt(k) == [n |-> k, d |-> 1]

RLeq(x, y) == x.n * y.d <= y.n * x.d

RMul(x, y) == Rat(x.n * y.n, x.d * y.d)

RAdd(x, y) == Rat(x.n * y.d + y.n * x.d, x.d * y.d)

\* Python's max(a, b): b only when b > a.
RMax(x, y) == IF RLeq(y, x) THEN x ELSE y

\* Python's min(a, b): b only when b < a.
RMin(x, y) == IF RLeq(x, y) THEN x ELSE y

IMax(a, b) == IF a >= b THEN a ELSE b

RECURSIVE Pow10(_)
Pow10(k) == IF k = 0 THEN 1 ELSE 10 * Pow10(k - 1)

(***************************************************************************)
(* Characters and text.                                                    *)
(***************************************************************************)
Digits == {"0", "1", "2", "3", "4", "5", "6", "7", "8", "9"}

Letters == {"a", "b", "c", "d", "e", "f", "g", "h", "i", "l", "m", "n", "o",
            "p", "r", "s", "t", "u", "w", "x", "y"}

WordChars == Letters \cup Digits \cup {"_"}

Whitespace == {" ", "\n"}

AllChars == WordChars \cup Whitespace \cup {"(", ")", ":", ".", "=", "*", "!"}

\* What "." of a regular expression matches.
DotChars == AllChars \ {"\n"}

DigitVal(c) ==
    CASE c = "0" -> 0 [] c = "1" -> 1 [] c = "2" -> 2 [] c = "3" -> 3
      [] c = "4" -> 4 [] c = "5" -> 5 [] c = "6" -> 6 [] c = "7" -> 7
      [] c = "8" -> 8 [] c = "9" -> 9

\* Number of leading characters of s, from position i on, that are in class.
RECURSIVE RunLen(_, _, _)
RunLen(s, i, class) ==
    IF i <= Len(s) /\ s[i] \in class THEN 1 + RunLen(s, i + 1, class) ELSE 0

\* Number of trailing characters of s that are whitespace.
RECURSIVE TrailingWs(_)
TrailingWs(s) ==
    IF Len(s) > 0 /\ s[Len(s)] \in Whitespace
    THEN 1 + TrailingWs(SubSeq(s, 1, Len(s) - 1))
    ELSE 0

\* str.strip()
Strip(s) ==
    LET lead == RunLen(s, 1, Whitespace)
    IN  IF lead = Len(s) THEN <<>>
        ELSE SubSeq(s, lead + 1, Len(s) - TrailingWs(s))

\* lit occurs in s at position i.
LitAt(s, i, lit) ==
    /\ i >= 1
    /\ i + Len(lit) - 1 <= Len(s)
    /\ \A k \in 1..Len(lit) : s[i + k - 1] = lit[k]

\* Python's "e in a" for strings.
Contains(a, e) == \E i \in 1..(Len(a) + 1) : LitAt(a, i, e)

\* set(s.split()): the maximal runs of non-whitespace characters.
WordSet(s) ==
    { SubSeq(s, i, j) : <<i, j>> \in
        { p \in (1..Len(s)) \X (1..Len(s)) :
            /\ p[1] <= p[2]
            /\ \A k \in p[1]..p[2] : s[k] \notin Whitespace
            /\ (p[1] = 1 \/ s[p[1] - 1] \in Whitespace)
            /\ (p[2] = Len(s) \/ s[p[2] + 1] \in Whitespace) } }

\* int(...) of a run of digits.
RECURSIVE DecValue(_)
DecValue(ds) ==
    IF ds = <<>> THEN 0
    ELSE 10 * DecValue(SubSeq(ds, 1, Len(ds) - 1)) + DigitVal(ds[Len(ds)])

(***************************************************************************)
(* Regular expressions: a pattern is a sequence of items, each a literal,  *)
(* an alternative of literals, or a repeated character class.  Search      *)
(* tells whether the pattern matches somewhere in the text (re.search).    *)
(***************************************************************************)
Lit(chars) == [kind |-> "lit", alts |-> {chars}, class |-> {}]
Alt(lits) == [kind |-> "lit", alts |-> lits, class |-> {}]
Plus(class) == [kind |-> "plus", alts |-> {}, class |-> class]
Star(class) == [kind |-> "star", alts |-> {}, class |-> class]

\* The positions a match of item can end at (exclusive) when it starts at p.
ItemEnds(item, s, p) ==
    IF item.kind = "lit"
    THEN { p + Len(l) : l \in { a \in item.alts : LitAt(s, p, a) } }
    ELSE { q \in p..(p + RunLen(s, p, item.class)) : item.kind = "plus" => q > p }

RECURSIVE MatchEnds(_, _, _, _)
MatchEnds(re, k, s, starts) ==
    IF k > Len(re) THEN starts
    ELSE MatchEnds(re, k + 1, s,
                   UNION { ItemEnds(re[k], s, p) : p \in starts })

Search(re, s) == MatchEnds(re, 1, s, 1..(Len(s) + 1)) # {}

(***************************************************************************)
(* The patterns of the syntax checks.                                      *)
(***************************************************************************)
T_def == <<"d", "e", "f">>
T_while == <<"w", "h", "i", "l", "e">>
T_for == <<"f", "o", "r">>
T_in == <<"i", "n">>
T_if == <<"i", "f">>
T_from == <<"f", "r", "o", "m">>
T_microbit == <<"m", "i", "c", "r", "o", "b", "i", "t">>
T_import == <<"i", "m", "p", "o", "r", "t">>
T_display_dot == <<"d", "i", "s", "p", "l", "a", "y", ".">>
T_show == <<"s", "h", "o", "w">>
T_scroll == <<"s", "c", "r", "o", "l", "l">>
T_get_pixel == <<"g", "e", "t", "_", "p", "i", "x", "e", "l">>
T_set_pixel == <<"s", "e", "t", "_", "p", "i", "x", "e", "l">>
T_button_ == <<"b", "u", "t", "t", "o", "n", "_">>
T_was_pressed == <<"w", "a", "s", "_", "p", "r", "e", "s", "s", "e", "d">>
T_is_pressed == <<"i", "s", "_", "p", "r", "e", "s", "s", "e", "d">>
T_get_presses == <<"g", "e", "t", "_", "p", "r", "e", "s", "s", "e", "s">>

\* r'def\s+\w+\s*\('
ReFunctionDefinition ==
    <<Lit(T_def), Plus(Whitespace), Plus(WordChars), Star(Whitespace),
      Lit(<<"(">>)>>

\* r'while\s+.+:'
ReWhileLoop == <<Lit(T_while), Plus(Whitespace), Plus(DotChars), Lit(<<":">>)>>

\* r'for\s+.+\s+in\s+.+:'
ReForLoop ==
    <<Lit(T_for), Plus(Whitespace), Plus(DotChars), Plus(Whitespace),
      Lit(T_in), Plus(Whitespace), Plus(DotChars), Lit(<<":">>)>>

\* r'if\s+.+:'
ReIfStatement == <<Lit(T_if), Plus(Whitespace), Plus(DotChars), Lit(<<":">>)>>

\* r'from\s+microbit\s+import'
ReMicrobitImport ==
    <<Lit(T_from), Plus(Whitespace), Lit(T_microbit), Plus(Whitespace),
      Lit(T_import)>>

\* r'display\.(show|scroll|get_pixel|set_pixel)'
ReDisplayImage ==
    <<Lit(T_display_dot), Alt({T_show, T_scroll, T_get_pixel, T_set_pixel})>>

\* r'button_(a|b)\.(was_pressed|is_pressed|get_presses)'
ReButtonInput ==
    <<Lit(T_button_), Alt({<<"a">>, <<"b">>}), Lit(<<".">>),
      Alt({T_was_pressed, T_is_pressed, T_get_presses})>>

\* The element names _check_python_syntax has a branch for.
PythonElements == {"function_definition", "while_loop", "for_loop", "if_statement"}

\* The regular expression of each branch of the loop of _check_python_syntax.
PythonPattern(element) ==
    CASE element = "function_definition" -> ReFunctionDefinition
      [] element = "while_loop" -> ReWhileLoop
      [] element = "for_loop" -> ReForLoop
      [] element = "if_statement" -> ReIfStatement

\* The element names _check_microbit_syntax looks for, in its order.
MicrobitElements == <<"microbit_import", "display_image", "button_input">>

MicrobitPattern(element) ==
    CASE element = "microbit_import" -> ReMicrobitImport
      [] element = "display_image" -> ReDisplayImage
      [] element = "button_input" -> ReButtonInput

(***************************************************************************)
(* Submissions: lines of Python joined by newlines.  compile() is the      *)
(* Python parser's answer on these texts: a text compiles when every line  *)
(* of it is one of the well-formed statements.                             *)
(***************************************************************************)
LineDef == <<"d", "e", "f", " ", "f", "(", ")", ":", "0">>
LineWhile == <<"w", "h", "i", "l", "e", " ", "x", ":", "0">>
LineFor == <<"f", "o", "r", " ", "i", " ", "i", "n", " ", "x", ":", "0">>
LineIf == <<"i", "f", " ", "x", ":", "0">>
LinePlain == <<"x", "=", "1">>
LineBad == <<"d", "e", "f", " ", "f", "(">>
LineImport == <<"f", "r", "o", "m", " ", "m", "i", "c", "r", "o", "b", "i", "t",
                " ", "i", "m", "p", "o", "r", "t", " ", "*">>
LineShow == <<"d", "i", "s", "p", "l", "a", "y", ".", "s", "h", "o", "w", "(",
              "1", ")">>
LineButton == <<"b", "u", "t", "t", "o", "n", "_", "a", ".", "i", "s", "_", "p",
                "r", "e", "s", "s", "e", "d", "(", ")">>

ValidLines ==
    {LineDef, LineWhile, LineFor, LineIf, LinePlain, LineImport, LineShow,
     LineButton}

\* "\n".join(lines)
RECURSIVE Join(_)
Join(lines) ==
    IF lines = <<>> THEN <<>>
    ELSE IF Len(lines) = 1 THEN lines[1]
    ELSE lines[1] \o <<"\n">> \o Join(Tail(lines))

\* The sequences over S of length at most n.
SeqsUpTo(S, n) == UNION { [1..k -> S] : k \in 0..n }

\* code.split("\n")
RECURSIVE SplitLines(_)
SplitLines(text) ==
    LET first == RunLen(text, 1, DotChars)
    IN  IF first = Len(text) THEN <<text>>
        ELSE <<SubSeq(text, 1, first)>>
               \o SplitLines(SubSeq(text, first + 2, Len(text)))

\* compile(code, '<string>', 'exec') succeeds.
Compiles(code) ==
    \/ code = <<>>
    \/ LET lines == SplitLines(code)
       IN  \A i \in 1..Len(lines) : lines[i] \in ValidLines

(***************************************************************************)
(* What a strategy hands back: a (score, feedback) pair, or an exception   *)
(* with its text.                                                          *)
(***************************************************************************)
Val(score, feedback) == [exc |-> FALSE, score |-> score, feedback |-> feedback]

Exc(text) == [exc |-> TRUE, score |-> RInt(0), feedback |-> text]

\* criterion[key] exists.
Has(criterion, key) == key \in criterion.keys

\* str(KeyError(key))
KeyError(key) == <<"'", key, "'">>

(***************************************************************************)
(* AI review.  oracle is what the HTTP call produced: [kind |-> "ok",      *)
(* text |-> the message content] or [kind |-> "fail"] (a transport error,  *)
(* a status other than 200, a malformed body).                             *)
(***************************************************************************)
\* Mutant of ScoreMatch: the pattern without its decimal part, r'^\s*(\d+)'.
ScoreMatchIntOnly(feedback) ==
    LET ws == RunLen(feedback, 1, Whitespace)
        whole == RunLen(feedback, ws + 1, Digits)
    IN  [found |-> whole > 0, start |-> ws + 1, whole |-> whole, frac |-> 0,
         end |-> ws + whole]

\* re.match(r'^\s*(\d+(\.\d+)?)', feedback): [found, start, end] with
\* group(1) = feedback[start..end].  Every quantifier is greedy.
ScoreMatch(feedback) ==
    LET ws == RunLen(feedback, 1, Whitespace)
        whole == RunLen(feedback, ws + 1, Digits)
        dot == ws + whole + 1
        frac == IF dot <= Len(feedback) /\ feedback[dot] = "."
                THEN RunLen(feedback, dot + 1, Digits)
                ELSE 0
    IN  [found |-> whole > 0,
         start |-> ws + 1,
         whole |-> whole,
         frac |-> frac,
         end |-> IF frac > 0 THEN dot + frac ELSE ws + whole]

\* float(score_match.group(1))
FloatOfMatch(feedback, m) ==
    Rat(DecValue(SubSeq(feedback, m.start, m.start + m.whole - 1)) * Pow10(m.frac)
          + DecValue(SubSeq(feedback, m.end - m.frac + 1, m.end)),
        Pow10(m.frac))

_ai_review(criterion, oracle) ==
    IF oracle.kind # "ok"
    THEN Val(RInt(0), <<"AI review failed: ", "error">>)
    ELSE LET feedback == oracle.text
             score_match == ScoreMatch(feedback)
         IN  IF score_match.found
             THEN Val(FloatOfMatch(feedback, score_match),
                      Strip(SubSeq(feedback, score_match.end + 1, Len(feedback))))
             ELSE Val(RInt(0), feedback)

(***************************************************************************)
(* Syntax checks.                                                          *)
(***************************************************************************)
\* The loop of _check_python_syntax: the elements appended to found_elements.
PythonFound(required_elements, code) ==
    SelectSeq(required_elements,
              LAMBDA element : /\ element \in PythonElements
                               /\ Search(PythonPattern(element), code))

\* The elements appended to missing_elements.
PythonMissing(required_elements, code) ==
    SelectSeq(required_elements,
              LAMBDA element : /\ element \in PythonElements
                               /\ ~Search(PythonPattern(element), code))

\* ', '.join(elements)
RECURSIVE CommaJoin(_)
CommaJoin(elements) ==
    IF elements = <<>> THEN <<>>
    ELSE IF Len(elements) = 1 THEN <<elements[1]>>
    ELSE <<elements[1], ", ">> \o CommaJoin(Tail(elements))

\* Mutants of ElementScore: no special case for an empty list (nothing
\* found, nothing awarded), and floor division in place of division.
ElementScoreEmptyZero(criterion, found_elements) ==
    IF criterion.required_elements = <<>>
    THEN RInt(0)
    ELSE RMul(Rat(Len(found_elements), Len(criterion.required_elements)),
              RInt(criterion.points))

ElementScoreFloorDiv(criterion, found_elements) ==
    IF criterion.required_elements = <<>>
    THEN RInt(criterion.points)
    ELSE RInt((Len(found_elements) \div Len(criterion.required_elements))
                * criterion.points)

\* (len(found_elements) / len(required_elements)) * criterion['points'], or
\* criterion['points'] when nothing is required.
ElementScore(criterion, found_elements) ==
    IF criterion.required_elements = <<>>
    THEN RInt(criterion.points)
    ELSE RMul(Rat(Len(found_elements), Len(criterion.required_elements)),
              RInt(criterion.points))

_check_python_syntax(criterion, code) ==
    IF ~Compiles(code)
    THEN Val(RInt(0), <<"Syntax error: ", "invalid syntax">>)
    ELSE LET found_elements == PythonFound(criterion.required_elements, code)
             missing_elements == PythonMissing(criterion.required_elements, code)
         IN  IF ~Has(criterion, "points") THEN Exc(KeyError("points"))
             ELSE Val(ElementScore(criterion, found_elements),
                      IF missing_elements # <<>>
                      THEN <<"Missing required elements: ">>
                             \o CommaJoin(missing_elements)
                      ELSE <<"All required elements found">>)

\* 'x in required_elements'
InList(x, list) == \E i \in 1..Len(list) : list[i] = x

\* The three "if ... in required_elements" blocks, in order.
MicrobitFound(required_elements, code) ==
    SelectSeq(MicrobitElements,
              LAMBDA element : /\ InList(element, required_elements)
                               /\ Search(MicrobitPattern(element), code))

MicrobitMissing(required_elements, code) ==
    SelectSeq(MicrobitElements,
              LAMBDA element : /\ InList(element, required_elements)
                               /\ ~Search(MicrobitPattern(element), code))

_check_microbit_syntax(criterion, code) ==
    LET found_elements == MicrobitFound(criterion.required_elements, code)
        missing_elements == MicrobitMissing(criterion.required_elements, code)
    IN  IF ~Has(criterion, "points") THEN Exc(KeyError("points"))
        ELSE Val(ElementScore(criterion, found_elements),
                 IF missing_elements # <<>>
                 THEN <<"Missing required Microbit elements: ">>
                        \o CommaJoin(missing_elements)
                 ELSE <<"All required Microbit elements found">>)

_check_syntax(criterion, code) ==
    LET r == CASE criterion.type = "python_syntax" ->
                    _check_python_syntax(criterion, code)
               [] criterion.type = "microbit_blocks" ->
                    _check_microbit_syntax(criterion, code)
               [] criterion.type = "scratch_blocks" ->
                    Val(RInt(0), <<"Scratch syntax checking not implemented">>)
               [] OTHER ->
                    Val(RInt(0), <<"Unknown syntax check type: ", criterion.type>>)
    IN  IF r.exc THEN Val(RInt(0), <<"Syntax check failed: ">> \o r.feedback)
        ELSE r

(***************************************************************************)
(* Output comparison.  run is what executing the submission produced:      *)
(* [kind |-> "completed", stdout |-> text], [kind |-> "crashed",           *)
(* stdout |-> text] (the program ended with an uncaught error: a non-zero  *)
(* return code, the traceback on stderr, stdout holding what was printed   *)
(* before), [kind |-> "timeout"] (subprocess.TimeoutExpired),              *)
(* [kind |-> "error"] (subprocess.run raised something else) or            *)
(* [kind |-> "open_error"] (temp_code.py could not be written).            *)
(* subprocess.run is called without check=True: it returns normally        *)
(* whatever the return code is.                                            *)
(***************************************************************************)
\* Mutant of Similarity: without the boost for a contained expected output.
SimilarityNoBoost(actual_output, expected_output) ==
    LET max_len == IMax(Len(actual_output), Len(expected_output))
        by_length == Rat(max_len - Abs(Len(actual_output) - Len(expected_output)),
                         max_len)
        expected_words == WordSet(expected_output)
        actual_words == WordSet(actual_output)
        common_words == expected_words \cap actual_words
    IN  IF max_len = 0 THEN RInt(0)
        ELSE IF expected_words # {} /\ actual_words # {}
        THEN RMax(by_length,
                  Rat(Cardinality(common_words), Cardinality(expected_words)))
        ELSE by_length

\* Mutant of Similarity: the word overlap is taken over the words of both
\* texts (Jaccard) and not over the expected words.
SimilarityJaccard(actual_output, expected_output) ==
    LET max_len == IMax(Len(actual_output), Len(expected_output))
        by_length == Rat(max_len - Abs(Len(actual_output) - Len(expected_output)),
                         max_len)
        contained == IF Contains(actual_output, expected_output)
                     THEN RMax(by_length, Rat(4, 5))
                     ELSE by_length
        expected_words == WordSet(expected_output)
        actual_words == WordSet(actual_output)
        common_words == expected_words \cap actual_words
    IN  IF max_len = 0 THEN RInt(0)
        ELSE IF expected_words # {} /\ actual_words # {}
        THEN RMax(contained,
                  Rat(Cardinality(common_words),
                      Cardinality(expected_words \cup actual_words)))
        ELSE contained

\* The similarity of the partial-credit branch.
Similarity(actual_output, expected_output) ==
    LET max_len == IMax(Len(actual_output), Len(expected_output))
        by_length == Rat(max_len - Abs(Len(actual_output) - Len(expected_output)),
                         max_len)
        contained == IF Contains(actual_output, expected_output)
                     THEN RMax(by_length, Rat(4, 5))
                     ELSE by_length
        expected_words == WordSet(expected_output)
        actual_words == WordSet(actual_output)
        common_words == expected_words \cap actual_words
    IN  IF max_len = 0 THEN RInt(0)
        ELSE IF expected_words # {} /\ actual_words # {}
        THEN RMax(contained,
                  Rat(Cardinality(common_words), Cardinality(expected_words)))
        ELSE contained

\* Mutant of CompareOutput: the texts are compared as they are, untrimmed.
CompareOutputNoStrip(criterion, stdout) ==
    LET both == criterion.expected \o <<"', Got: '">> \o stdout \o <<"'">>
    IN  IF stdout = criterion.expected
        THEN Val(RInt(criterion.points), <<"Output matches expected result">>)
        ELSE IF criterion.partial_credit
        THEN Val(RMul(Similarity(stdout, criterion.expected), RInt(criterion.points)),
                 <<"Output partially matches. Expected: '">> \o both)
        ELSE Val(RInt(0), <<"Output does not match. Expected: '">> \o both)

\* The (score, feedback) of the comparison once the run has completed.
CompareOutput(criterion, stdout) ==
    LET actual_output == Strip(stdout)
        expected_output == Strip(criterion.expected)
        both == expected_output \o <<"', Got: '">> \o actual_output \o <<"'">>
    IN  IF actual_output = expected_output
        THEN IF Has(criterion, "points")
             THEN Val(RInt(criterion.points), <<"Output matches expected result">>)
             ELSE Exc(KeyError("points"))
        ELSE IF criterion.partial_credit
        THEN IF Has(criterion, "points")
             THEN Val(RMul(Similarity(actual_output, expected_output),
                           RInt(criterion.points)),
                      <<"Output partially matches. Expected: '">> \o both)
             ELSE Exc(KeyError("points"))
        ELSE Val(RInt(0), <<"Output does not match. Expected: '">> \o both)

_check_output(criterion, run) ==
    CASE run.kind = "timeout" -> Val(RInt(0), <<"Code execution timed out">>)
      [] run.kind \in {"completed", "crashed"} ->
           LET r == CompareOutput(criterion, run.stdout)
           IN  IF r.exc THEN Val(RInt(0), <<"Failed to check output: ">> \o r.feedback)
               ELSE r
      [] OTHER -> Val(RInt(0), <<"Failed to check output: ", "error">>)

\* Whether temp_code.py exists when _check_output returns, given whether it
\* existed when it was called.
TempFileAfter(run, existed) ==
    CASE run.kind = "open_error" -> existed
      [] run.kind \in {"completed", "crashed"} -> FALSE
      [] OTHER -> TRUE

(***************************************************************************)
(* The criterion evaluator.  env is what the outside world does during     *)
(* the call: [oracle |-> ..., run |-> ...].                                *)
(***************************************************************************)
\* Mutants of Cap: no cap at all, and max in place of min.
CapNone(score, points) == score

CapMax(score, points) == RMax(score, RInt(points))

\* Cap score at maximum points for this criterion.
Cap(score, points) == RMin(score, RInt(points))

\* Mutant of Dispatch: no else branch, feedback stays "".
DispatchNoElse(criterion, code, env) ==
    IF criterion.type = "ai_review" THEN _ai_review(criterion, env.oracle)
    ELSE IF criterion.type \in {"python_syntax", "microbit_blocks", "scratch_blocks"}
    THEN _check_syntax(criterion, code)
    ELSE IF criterion.type = "output_match" THEN _check_output(criterion, env.run)
    ELSE Val(RInt(0), <<>>)

\* The locals (score, feedback) after the dispatch.
Dispatch(criterion, code, env) ==
    IF criterion.type = "ai_review" THEN _ai_review(criterion, env.oracle)
    ELSE IF criterion.type \in {"python_syntax", "microbit_blocks", "scratch_blocks"}
    THEN _check_syntax(criterion, code)
    ELSE IF criterion.type = "output_match" THEN _check_output(criterion, env.run)
    ELSE Val(RInt(0), <<"Unknown criterion type: ", criterion.type>>)

NoLocals == Val(RInt(0), <<>>)

\* The call ended with an exception; locals are the values of score and
\* feedback at that point, dispatched whether a strategy was called.
Raised(text, locals, dispatched) ==
    [raised |-> TRUE, error |-> text, dispatched |-> dispatched, locals |-> locals,
     score |-> RInt(0), feedback |-> <<>>, max_points |-> 0]

\* The call returned {'score', 'feedback', 'max_points'}.
Returned(score, locals, max_points) ==
    [raised |-> FALSE, error |-> <<>>, dispatched |-> TRUE, locals |-> locals,
     score |-> score, feedback |-> locals.feedback, max_points |-> max_points]

_evaluate_criterion(criterion, code, env) ==
    IF ~Has(criterion, "description")
    THEN Raised(KeyError("description"), NoLocals, FALSE)
    ELSE IF ~Has(criterion, "type")
    THEN Raised(KeyError("type"), NoLocals, FALSE)
    ELSE LET locals == Dispatch(criterion, code, env)
         IN  IF ~Has(criterion, "points")
             THEN Raised(KeyError("points"), locals, TRUE)
             ELSE Returned(Cap(locals.score, criterion.points), locals,
                           criterion.points)

(***************************************************************************)
(* Criteria and the inputs of the specifications.                          *)
(***************************************************************************)
AllKeys == {"type", "description", "points"}

\* A criterion of the configuration; keys are the required fields it has.
\* The optional fields hold the default that criterion.get() gives.
Criterion(keys, type, points, required_elements, expected, partial_credit) ==
    [keys |-> keys, type |-> type, points |-> points,
     required_elements |-> required_elements, expected |-> expected,
     partial_credit |-> partial_credit]

NoOracle == [kind |-> "none", text |-> <<>>]
NoRun == [kind |-> "none", stdout |-> <<>>]
OracleOk(text) == [kind |-> "ok", text |-> text]
OracleFail == [kind |-> "fail", text |-> <<>>]
Completed(stdout) == [kind |-> "completed", stdout |-> stdout]
Crashed(stdout) == [kind |-> "crashed", stdout |-> stdout]
RunFailures ==
    { [kind |-> k, stdout |-> <<>>] : k \in {"timeout", "error", "open_error"} }

\* The sequences over S of length at most n without a repeated entry.
DistinctSeqsUpTo(S, n) ==
    { q \in SeqsUpTo(S, n) : \A i, j \in 1..Len(q) : q[i] = q[j] => i = j }

\* What the outside world may do during the evaluation of criterion.
Envs(criterion, Oracles, Runs) ==
    IF ~(AllKeys \ {"points"} \subseteq criterion.keys)
    THEN {[oracle |-> NoOracle, run |-> NoRun]}
    ELSE IF criterion.type = "ai_review"
    THEN {[oracle |-> o, run |-> NoRun] : o \in Oracles}
    ELSE IF criterion.type = "output_match"
    THEN {[oracle |-> NoOracle, run |-> r] : r \in Runs}
    ELSE {[oracle |-> NoOracle, run |-> NoRun]}

PointsRange == 0..MaxPoints

\* Inputs of Spec: a configuration of up to MaxCriteria criteria.
MainPoints == {0, MaxPoints}

MainCodes == {Join(<<LineDef, LineImport>>), LineBad}

MainWellFormed ==
    UNION { { Criterion(AllKeys, "ai_review", p, <<>>, <<>>, FALSE),
              Criterion(AllKeys, "python_syntax", p,
                        <<"function_definition", "while_loop">>, <<>>, FALSE),
              Criterion(AllKeys, "microbit_blocks", p,
                        <<"microbit_import", "button_input">>, <<>>, FALSE),
              Criterion(AllKeys, "scratch_blocks", p, <<>>, <<>>, FALSE),
              Criterion(AllKeys, "essay", p, <<>>, <<>>, FALSE),
              Criterion(AllKeys, "output_match", p, <<>>, <<"a", " ", "b">>, FALSE),
              Criterion(AllKeys, "output_match", p, <<>>, <<"a", " ", "b">>, TRUE) }
            : p \in MainPoints }

MainMalformed ==
    { Criterion(AllKeys \ {k}, "output_match", MaxPoints, <<>>, <<"a", " ", "b">>,
                FALSE) : k \in AllKeys }
      \cup { Criterion(AllKeys \ {"points"}, "python_syntax", MaxPoints, <<>>, <<>>,
                       FALSE) }

MainCriteria == MainWellFormed \cup MainMalformed

MainOracles ==
    { OracleFail, OracleOk(<<"9", " ", "o", "k">>), OracleOk(<<"1", ".", "5">>),
      OracleOk(<<"n", "o">>) }

MainRuns ==
    RunFailures \cup { Completed(<<"a", " ", "b", "\n">>), Completed(<<"a">>) }

\* Inputs of SpecAI: every response text of up to MaxRespLen characters.
RespChars == {"1", "5", ".", " ", "a"}

AIOracles == {OracleFail} \cup { OracleOk(t) : t \in SeqsUpTo(RespChars, MaxRespLen) }

AICriteria ==
    { Criterion(AllKeys, "ai_review", p, <<>>, <<>>, FALSE) : p \in PointsRange }

\* Inputs of SpecOutput: every expected and printed text of up to MaxOutLen
\* characters.
OutChars == {"a", "b", " "}

OutTexts == SeqsUpTo(OutChars, MaxOutLen)

OutputRuns ==
    RunFailures \cup { Completed(t) : t \in OutTexts }
                \cup { Crashed(t) : t \in OutTexts }

OutputCriteria ==
    { Criterion(AllKeys, "output_match", p, <<>>, e, partial)
        : p \in PointsRange, e \in OutTexts, partial \in BOOLEAN }

\* Inputs of SpecSyntax: submissions of up to MaxLines lines and lists of up
\* to MaxElems distinct required elements.
PythonLines == {LineDef, LineWhile, LineFor, LineIf, LineBad}

MicrobitLines == {LineImport, LineShow, LineButton, LinePlain, LineBad}

PythonCodes == { Join(ls) : ls \in SeqsUpTo(PythonLines, MaxLines) }

MicrobitCodes == { Join(ls) : ls \in SeqsUpTo(MicrobitLines, MaxLines) }

PythonCriteria ==
    { Criterion(AllKeys, "python_syntax", p, req, <<>>, FALSE)
        : p \in PointsRange,
          req \in DistinctSeqsUpTo(PythonElements \cup {"display_image"}, MaxElems) }

ScratchCriteria ==
    { Criterion(AllKeys, "scratch_blocks", p, req, <<>>, FALSE)
        : p \in PointsRange, req \in {<<>>, <<"function_definition">>} }

MicrobitCriteria ==
    { Criterion(AllKeys, "microbit_blocks", p, req, <<>>, FALSE)
        : p \in PointsRange,
          req \in DistinctSeqsUpTo({"microbit_import", "display_image",
                                    "button_input", "for_loop"}, MaxElems) }

(***************************************************************************)
(* The grading run: the criteria of the configuration are evaluated one    *)
(* at a time, in order, against the submission.                            *)
(***************************************************************************)
VARIABLES
    criteria,     \* the configured criteria
    code,         \* the submission text
    idx,          \* the criterion evaluated next
    calls,        \* per evaluated criterion: env and what _evaluate_criterion did
    results,      \* the report's per-criterion results
    total_score,  \* the report's total
    temp_code,    \* whether temp_code.py exists
    pc,           \* "running" or "done"
    temp_file,    \* concurrent evaluations: what temp_code.py holds, or NoFile
    workers,      \* concurrent evaluations: each caller of _check_output
    grading       \* the run of grade(): its position, locals and calls made

vars ==
    <<criteria, code, idx, calls, results, total_score, temp_code, pc, temp_file,
      workers, grading>>

\* No run of grade().
NoGrading ==
    [at |-> "idle", codio |-> FALSE, verdict |-> NoOracle, yn |-> <<>>,
     passed |-> FALSE, grade_val |-> 0, feedback |-> <<>>, sent |-> <<>>,
     notion |-> <<>>]

\* temp_code.py does not exist.
NoFile == [exists |-> FALSE, text |-> <<>>]

\* temp_code.py holds text.
File(text) == [exists |-> TRUE, text |-> text]

InitRun ==
    /\ idx = 1
    /\ calls = <<>>
    /\ results = <<>>
    /\ total_score = RInt(0)
    /\ temp_code = FALSE
    /\ pc = "running"
    /\ temp_file = NoFile
    /\ workers = <<>>
    /\ grading = NoGrading

Init ==
    /\ criteria \in SeqsUpTo(MainCriteria, MaxCriteria)
    /\ code \in MainCodes
    /\ InitRun

InitAI ==
    /\ criteria \in { <<c>> : c \in AICriteria }
    /\ code = LinePlain
    /\ InitRun

InitOutput ==
    /\ criteria \in { <<c>> : c \in OutputCriteria }
    /\ code = LinePlain
    /\ InitRun

InitSyntax ==
    /\ \/ criteria \in { <<c>> : c \in PythonCriteria } /\ code \in PythonCodes
       \/ criteria \in { <<c>> : c \in ScratchCriteria } /\ code \in MainCodes
       \/ criteria \in { <<c>> : c \in MicrobitCriteria } /\ code \in MicrobitCodes
    /\ InitRun

\* The result the report keeps of a call.
ReportEntry(criterion, out) ==
    IF out.raised
    THEN [score |-> RInt(0), feedback |-> <<"Criterion failed: ">> \o out.error,
          max_points |-> IF Has(criterion, "points") THEN criterion.points ELSE 0]
    ELSE [score |-> out.score, feedback |-> out.feedback,
          max_points |-> out.max_points]

\* One criterion is evaluated and its result added to the report.
Evaluate(Oracles, Runs) ==
    /\ pc = "running"
    /\ idx <= Len(criteria)
    /\ \E env \in Envs(criteria[idx], Oracles, Runs) :
       \E out \in {_evaluate_criterion(criteria[idx], code, env)} :
         LET criterion == criteria[idx]
             entry == ReportEntry(criterion, out)
         IN  /\ calls' = Append(calls, [env |-> env, out |-> out])
             /\ results' = Append(results, entry)
             /\ total_score' = RAdd(total_score, entry.score)
             /\ temp_code' = IF out.dispatched /\ criterion.type = "output_match"
                             THEN TempFileAfter(env.run, temp_code)
                             ELSE temp_code
    /\ idx' = idx + 1
    /\ UNCHANGED <<criteria, code, pc, temp_file, workers, grading>>

\* Every criterion has been evaluated: the report is final.
Finish ==
    /\ pc = "running"
    /\ idx > Len(criteria)
    /\ pc' = "done"
    /\ UNCHANGED <<criteria, code, idx, calls, results, total_score, temp_code,
                   temp_file, workers, grading>>

EvaluateMain == Evaluate(MainOracles, MainRuns)
EvaluateAI == Evaluate(AIOracles, {NoRun})
EvaluateOutput == Evaluate({NoOracle}, OutputRuns)
EvaluateSyntax == Evaluate({NoOracle}, {NoRun})

Next == EvaluateMain \/ Finish
NextAI == EvaluateAI \/ Finish
NextOutput == EvaluateOutput \/ Finish
NextSyntax == EvaluateSyntax \/ Finish

Spec == Init /\ [][Next]_vars
SpecAI == InitAI /\ [][NextAI]_vars
SpecOutput == InitOutput /\ [][NextOutput]_vars
SpecSyntax == InitSyntax /\ [][NextSyntax]_vars

\* Single criteria of every type, with the wide inputs of each.
InitEval ==
    \/ InitAI
    \/ InitOutput
    \/ InitSyntax
    \/ /\ criteria \in { <<c>> : c \in MainCriteria }
       /\ code \in MainCodes
       /\ InitRun

EvaluateEval == Evaluate(AIOracles \cup MainOracles, OutputRuns \cup MainRuns)

NextEval == EvaluateEval \/ Finish

SpecEval == InitEval /\ [][NextEval]_vars

(***************************************************************************)
(* The evaluator with the strategy replaced: lines 78, 80 and 82 assign    *)
(* whatever pair the strategy method returns, here any score between       *)
(* -(MaxPoints + 1) and MaxPoints + 1 in steps of one half.                *)
(***************************************************************************)
StubReturns ==
    { Val(Rat(n, 2), <<"stub">>) : n \in (-2 * (MaxPoints + 1))..(2 * (MaxPoints + 1)) }

StubCriteria ==
    { Criterion(AllKeys, t, p, <<>>, <<>>, FALSE)
        : t \in {"ai_review", "python_syntax", "output_match"}, p \in PointsRange }

InitClamp ==
    /\ criteria \in SeqsUpTo(StubCriteria, 1)
    /\ code = LinePlain
    /\ InitRun

\* _evaluate_criterion from line 86 on, the strategy having returned locals.
EvaluateStubbed ==
    /\ pc = "running"
    /\ idx <= Len(criteria)
    /\ \E locals \in StubReturns :
         LET criterion == criteria[idx]
             out == Returned(Cap(locals.score, criterion.points), locals,
                             criterion.points)
             entry == ReportEntry(criterion, out)
         IN  /\ calls' = Append(calls, [env |-> [oracle |-> NoOracle, run |-> NoRun],
                                        out |-> out])
             /\ results' = Append(results, entry)
             /\ total_score' = RAdd(total_score, entry.score)
    /\ idx' = idx + 1
    /\ UNCHANGED <<criteria, code, temp_code, pc, temp_file, workers, grading>>

NextClamp == EvaluateStubbed \/ Finish

SpecClamp == InitClamp /\ [][NextClamp]_vars

(***************************************************************************)
(* Concurrent evaluations: each worker is one call of _check_output with   *)
(* its own criterion and submission text, all in the same working          *)
(* directory.  A call is four steps: the file is written (lines 258-259),  *)
(* the child process runs it (262-267), the file is removed (270), the     *)
(* output is compared (272-305).  The submissions are programs of the form *)
(* print('t').                                                             *)
(***************************************************************************)
Workers == {1, 2}

\* The submission print('t').
PrintProgram(t) == <<"p", "r", "i", "n", "t", "(", "'">> \o t \o <<"'", ")">>

\* What python3 writes to stdout when it runs the program print('t').
StdoutOf(program) == SubSeq(program, 8, Len(program) - 2) \o <<"\n">>

ParCodes == { PrintProgram(<<c>>) : c \in {"a", "b"} }

ParCriteria ==
    { Criterion(AllKeys, "output_match", MaxPoints, <<>>, <<c>>, partial)
        : c \in {"a", "b"}, partial \in BOOLEAN }

\* The state of the sequential grading run, which the workers leave alone.
runVars == <<criteria, code, idx, calls, results, total_score, pc, grading>>

\* A worker about to enter _check_output(criterion, code).
Caller(criterion, text) ==
    [at |-> "write", criterion |-> criterion, code |-> text, executed |-> NoFile,
     run |-> NoRun, result |-> NoLocals]

InitPar ==
    /\ criteria = <<>>
    /\ code = <<>>
    /\ idx = 1
    /\ calls = <<>>
    /\ results = <<>>
    /\ total_score = RInt(0)
    /\ temp_code = FALSE
    /\ pc = "running"
    /\ temp_file = NoFile
    /\ grading = NoGrading
    /\ workers \in [Workers -> { Caller(c, t) : c \in ParCriteria, t \in ParCodes }]

\* with open('temp_code.py', 'w') as f: f.write(code)
ParWrite(w) ==
    /\ workers[w].at = "write"
    /\ temp_file' = File(workers[w].code)
    /\ temp_code' = TRUE
    /\ workers' = [workers EXCEPT ![w].at = "run"]
    /\ UNCHANGED runVars

\* subprocess.run(['python3', 'temp_code.py'], ...): the child runs what the
\* file holds now; without the file python3 ends with a non-zero return code
\* and nothing on stdout.
ParRun(w) ==
    /\ workers[w].at = "run"
    /\ workers' = [workers EXCEPT
                     ![w].at = "remove",
                     ![w].executed = temp_file,
                     ![w].run = IF temp_file.exists
                                THEN Completed(StdoutOf(temp_file.text))
                                ELSE Crashed(<<>>)]
    /\ UNCHANGED <<temp_file, temp_code, runVars>>

\* os.remove('temp_code.py'): FileNotFoundError without the file, which the
\* handler of lines 309-311 turns into the call's result.
ParRemove(w) ==
    /\ workers[w].at = "remove"
    /\ IF temp_file.exists
       THEN /\ temp_file' = NoFile
            /\ temp_code' = FALSE
            /\ workers' = [workers EXCEPT ![w].at = "compare"]
       ELSE /\ workers' = [workers EXCEPT
                             ![w].at = "done",
                             ![w].result =
                                 _check_output(workers[w].criterion,
                                               [kind |-> "error", stdout |-> <<>>])]
            /\ UNCHANGED <<temp_file, temp_code>>
    /\ UNCHANGED runVars

\* Lines 272-305 on the captured stdout.
ParCompare(w) ==
    /\ workers[w].at = "compare"
    /\ workers' = [workers EXCEPT
                     ![w].at = "done",
                     ![w].result = _check_output(workers[w].criterion, workers[w].run)]
    /\ UNCHANGED <<temp_file, temp_code, runVars>>

NextPar ==
    \E w \in Workers : ParWrite(w) \/ ParRun(w) \/ ParRemove(w) \/ ParCompare(w)

SpecPar == InitPar /\ [][NextPar]_vars

(***************************************************************************)
(* grade(): the verdict call, the feedback call, the delivery to Codio and *)
(* the Notion log.  grading.at is the position in grade(), from the point  *)
(* where the configuration and the submission are loaded; grading.sent     *)
(* holds the calls of codio_send and grading.notion those of notion_log,   *)
(* in order.                                                               *)
(***************************************************************************)
\* str.lower() on the letters of the responses.
Lower(text) ==
    [k \in 1..Len(text) |->
        CASE text[k] = "Y" -> "y" [] text[k] = "N" -> "n" [] OTHER -> text[k]]

\* text.startswith(c)
StartsWith(text, c) == text # <<>> /\ text[1] = c

\* call_openai: the stripped content of the response, or the exception raised
\* again.
call_openai(oracle) ==
    IF oracle.kind = "ok"
    THEN [raised |-> FALSE, text |-> Strip(oracle.text)]
    ELSE [raised |-> TRUE, text |-> <<>>]

\* Grades of grade().
GradeError == 0
GradePass == 100
GradeFail == 50

\* What the verdict call may produce: a failure, or any response of up to
\* MaxRespLen characters.
VerdictOracles ==
    {OracleFail}
      \cup { OracleOk(t) : t \in SeqsUpTo({"y", "Y", "n", " "}, MaxRespLen) }

\* What codio_send does: send_grade_v2 returns true or false, or the import
\* or the call raises.
SendOutcomes == {"accepted", "rejected", "raises"}

\* What happens from json.loads(os.getenv("CODIO_AUTOGRADE_ENV")) on: the
\* value is not JSON, or notion_log returns, or notion_log raises.
NotionOutcomes == {"env_error", "returns", "raises"}

\* The state of the sequential engine and of the workers, which grade()
\* leaves alone.
engineVars ==
    <<criteria, code, idx, calls, results, total_score, temp_code, pc, temp_file,
      workers>>

InitGrade ==
    /\ criteria = <<>>
    /\ code = <<>>
    /\ idx = 1
    /\ calls = <<>>
    /\ results = <<>>
    /\ total_score = RInt(0)
    /\ temp_code = FALSE
    /\ pc = "running"
    /\ temp_file = NoFile
    /\ workers = <<>>
    /\ grading \in { [NoGrading EXCEPT !.at = "verdict", !.codio = c] : c \in BOOLEAN }

\* Mutant of AfterFeedbackFailure: the handler returns, as the handler of the
\* verdict call does.
AfterFeedbackFailureReturn == "done"

\* Where grade() goes on after the handler of the failed feedback call.
AfterFeedbackFailure == "deliver"

\* Lines 599-623: the verdict call, its handler, and the yes/no processing.
GradeVerdict ==
    /\ grading.at = "verdict"
    /\ \E oracle \in VerdictOracles :
         LET r == call_openai(oracle)
             yn == Lower(r.text)
         IN  grading' =
               IF r.raised
               THEN [grading EXCEPT !.verdict = oracle,
                                    !.at = IF grading.codio THEN "send_error"
                                           ELSE "done"]
               ELSE [grading EXCEPT
                       !.verdict = oracle,
                       !.yn = yn,
                       !.passed = StartsWith(yn, "y"),
                       !.grade_val = IF StartsWith(yn, "y") THEN GradePass
                                     ELSE GradeFail,
                       !.at = "feedback"]
    /\ UNCHANGED engineVars

\* Lines 602-610: the handler's codio_send(0, error_msg) and return.
GradeSendError ==
    /\ grading.at = "send_error"
    /\ \E outcome \in SendOutcomes :
         grading' = [grading EXCEPT
                       !.sent = Append(@, [grade |-> GradeError,
                                           feedback |-> <<"Autograder API error">>]),
                       !.at = IF outcome = "raises" THEN "raised" ELSE "done"]
    /\ UNCHANGED engineVars

\* Lines 625-646: the feedback call and its handler.
GradeFeedback ==
    /\ grading.at = "feedback"
    /\ \E oracle \in {OracleFail, OracleOk(<<"o", "k">>)} :
         LET r == call_openai(oracle)
             mark == IF grading.passed THEN "passed: " ELSE "not passed: "
             unexpected == ~StartsWith(grading.yn, "y") /\ ~StartsWith(grading.yn, "n")
         IN  grading' =
               IF r.raised
               THEN [grading EXCEPT
                       !.feedback = <<"Unable to generate detailed feedback.">>,
                       !.at = AfterFeedbackFailure]
               ELSE [grading EXCEPT
                       !.feedback = <<mark>> \o r.text \o
                                      (IF unexpected
                                       THEN <<"unexpected response: ">> \o grading.yn
                                       ELSE <<>>),
                       !.at = "deliver"]
    /\ UNCHANGED engineVars

\* Lines 649-650 and 665-678: codio_send(grade_val, feedback) in Codio, the
\* printed report otherwise.
GradeDeliver ==
    /\ grading.at = "deliver"
    /\ IF grading.codio
       THEN \E outcome \in SendOutcomes :
              grading' = [grading EXCEPT
                            !.sent = Append(@, [grade |-> grading.grade_val,
                                                feedback |-> grading.feedback]),
                            !.at = IF outcome = "raises" THEN "raised" ELSE "notion"]
       ELSE grading' = [grading EXCEPT !.at = "done"]
    /\ UNCHANGED engineVars

\* Lines 652-664: the Notion log and sys.exit.
GradeNotion ==
    /\ grading.at = "notion"
    /\ \E outcome \in NotionOutcomes :
         grading' =
           IF outcome = "env_error"
           THEN [grading EXCEPT !.at = "raised"]
           ELSE [grading EXCEPT
                   !.notion = Append(@, [score |-> grading.grade_val,
                                         outcome |-> outcome]),
                   !.at = "done"]
    /\ UNCHANGED engineVars

NextGrade ==
    GradeVerdict \/ GradeSendError \/ GradeFeedback \/ GradeDeliver \/ GradeNotion

SpecGrade == InitGrade /\ [][NextGrade]_vars

(***************************************************************************)
(* Properties.                                                             *)
(***************************************************************************)
KnownTypes ==
    {"ai_review", "python_syntax", "microbit_blocks", "scratch_blocks",
     "output_match"}

WellFormed(criterion) == criterion.keys = AllKeys

RLess(x, y) == ~RLeq(y, x)

RECURSIVE SumScores(_)
SumScores(rs) == IF rs = <<>> THEN RInt(0) ELSE RAdd(rs[1].score, SumScores(Tail(rs)))

\* The points of the first k criteria (a criterion without points has none).
RECURSIVE SumPoints(_, _)
SumPoints(cs, k) ==
    IF k = 0 THEN 0
    ELSE SumPoints(cs, k - 1) + (IF Has(cs[k], "points") THEN cs[k].points ELSE 0)

\* C1: every result _evaluate_criterion returns for a criterion with
\* non-negative points, whatever its type, the submission and the oracle's or
\* the run's answer, has 0 <= score <= points and max_points = points.
C1_ScoreWithinPoints ==
    \A i \in 1..Len(calls) :
        ~calls[i].out.raised =>
            /\ RLeq(RInt(0), calls[i].out.score)
            /\ RLeq(calls[i].out.score, RInt(criteria[i].points))
            /\ calls[i].out.max_points = criteria[i].points

\* A strategy returned more than the points and the result holds the points.
C1_Witness ==
    \E i \in 1..Len(calls) :
        /\ ~calls[i].out.raised
        /\ criteria[i].points > 0
        /\ RLess(RInt(criteria[i].points), calls[i].out.locals.score)
        /\ calls[i].out.score = RInt(criteria[i].points)

\* C2: a criterion missing type, description or points is reported as a
\* zero-score result with feedback; its evaluation does not raise.
C2_MalformedReportedNotRaised ==
    \A i \in 1..Len(calls) :
        ~WellFormed(criteria[i]) =>
            /\ ~calls[i].out.raised
            /\ calls[i].out.score = RInt(0)
            /\ calls[i].out.feedback # <<>>

\* C3: after a call of _check_output that wrote temp_code.py, whatever the
\* outcome of the run, temp_code.py does not exist.
C3_TempFileRemoved ==
    \A i \in 1..Len(calls) :
        ( /\ i = Len(calls)
          /\ calls[i].out.dispatched
          /\ criteria[i].type = "output_match"
          /\ calls[i].env.run.kind # "open_error" ) => ~temp_code

\* C4: the report's total_score is the sum of the per-criterion scores and
\* is at most the sum of the points of the criteria evaluated so far, hence
\* of all criteria.
C4_TotalIsSumWithinPoints ==
    /\ total_score = SumScores(results)
    /\ RLeq(total_score, RInt(SumPoints(criteria, Len(results))))
    /\ RLeq(total_score, RInt(SumPoints(criteria, Len(criteria))))

\* A finished report of two criteria, the first capped at its points and the
\* second with a positive score.
C4_Witness ==
    /\ pc = "done"
    /\ Len(results) = 2
    /\ RLess(RInt(criteria[1].points), calls[1].out.locals.score)
    /\ RLess(RInt(0), results[2].score)
    /\ total_score = RAdd(results[1].score, results[2].score)

\* C5: a criterion with all its fields whose type is not a recognised one
\* gets a result with score 0 and a feedback holding the type's name, its
\* evaluation does not raise, and the finished report has a result for every
\* criterion.
C5_UnknownTypeZeroAndNamed ==
    /\ \A i \in 1..Len(calls) :
         (WellFormed(criteria[i]) /\ criteria[i].type \notin KnownTypes) =>
            /\ ~calls[i].out.raised
            /\ calls[i].out.score = RInt(0)
            /\ \E k \in 1..Len(calls[i].out.feedback) :
                  calls[i].out.feedback[k] = criteria[i].type
            /\ results[i].score = RInt(0)
            /\ results[i].feedback = calls[i].out.feedback
    /\ pc = "done" => Len(results) = Len(criteria)

\* A finished report whose first criterion has an unknown type and whose
\* second criterion scored.
C5_Witness ==
    /\ pc = "done"
    /\ Len(criteria) = 2
    /\ WellFormed(criteria[1])
    /\ criteria[1].type \notin KnownTypes
    /\ criteria[1].points > 0
    /\ results[1].score = RInt(0)
    /\ RLess(RInt(0), results[2].score)

SyntaxCheckTypes == {"python_syntax", "microbit_blocks"}

\* C6 as stated: a syntax check with no required elements returns the full
\* points whatever the submitted code is.
C6_EmptyRequiredAlwaysFull ==
    \A i \in 1..Len(calls) :
        ( /\ criteria[i].type \in SyntaxCheckTypes
          /\ criteria[i].required_elements = <<>> ) =>
            calls[i].out.locals.score = RInt(criteria[i].points)

\* C6 amended: with no required elements the microbit check returns the full
\* points whatever the code is, and the Python check returns the full points
\* when the code compiles and 0 when it does not.
C6_EmptyRequiredFullIfCompiles ==
    \A i \in 1..Len(calls) :
        ( /\ criteria[i].type \in SyntaxCheckTypes
          /\ criteria[i].required_elements = <<>> ) =>
            calls[i].out.locals.score =
                IF criteria[i].type = "python_syntax" /\ ~Compiles(code)
                THEN RInt(0)
                ELSE RInt(criteria[i].points)

\* Both checks gave the full points for no required elements, the microbit
\* one on code that does not compile.
C6_Witness ==
    \E i \in 1..Len(calls) :
        /\ criteria[i].required_elements = <<>>
        /\ criteria[i].points > 0
        /\ calls[i].out.locals.score = RInt(criteria[i].points)
        /\ \/ criteria[i].type = "python_syntax" /\ Compiles(code) /\ code # <<>>
           \/ criteria[i].type = "microbit_blocks" /\ ~Compiles(code)

\* The detector of a required element is satisfied by the code.
Detected(type, element, text) ==
    IF type = "python_syntax"
    THEN element \in PythonElements /\ Search(PythonPattern(element), text)
    ELSE /\ element \in {"microbit_import", "display_image", "button_input"}
         /\ Search(MicrobitPattern(element), text)

Satisfied(criterion, text) ==
    { k \in 1..Len(criterion.required_elements) :
        Detected(criterion.type, criterion.required_elements[k], text) }

IsNumeral(t) ==
    /\ t # <<>>
    /\ \/ \A k \in 1..Len(t) : t[k] \in Digits
       \/ \E d \in 2..(Len(t) - 1) :
             /\ t[d] = "."
             /\ \A k \in (1..Len(t)) \ {d} : t[k] \in Digits

\* The length of the longest prefix of t that is a numeral (0: none).
NumericPrefixLen(t) ==
    CHOOSE k \in 0..Len(t) :
        /\ k = 0 \/ IsNumeral(SubSeq(t, 1, k))
        /\ \A j \in (k + 1)..Len(t) : ~IsNumeral(SubSeq(t, 1, j))

\* The value of a numeral.
NumeralValue(t) ==
    IF \A k \in 1..Len(t) : t[k] \in Digits THEN RInt(DecValue(t))
    ELSE LET d == CHOOSE k \in 1..Len(t) : t[k] = "."
         IN  RAdd(RInt(DecValue(SubSeq(t, 1, d - 1))),
                  Rat(DecValue(SubSeq(t, d + 1, Len(t))), Pow10(Len(t) - d)))

\* What C8 says of a response, read from its position from on.
ParsedAsClaimed(locals, response, from) ==
    LET t == SubSeq(response, from, Len(response))
        k == NumericPrefixLen(t)
    IN  IF k > 0
        THEN /\ locals.score = NumeralValue(SubSeq(t, 1, k))
             /\ locals.feedback = Strip(SubSeq(t, k + 1, Len(t)))
        ELSE /\ locals.score = RInt(0)
             /\ locals.feedback = response

\* C8 as stated: a response that begins with a number gives the value of its
\* longest leading numeric prefix and the trimmed rest as feedback; any other
\* response gives score 0 and the full response as feedback.
C8_LeadingNumberParsed ==
    \A i \in 1..Len(calls) :
        (criteria[i].type = "ai_review" /\ calls[i].env.oracle.kind = "ok") =>
            ParsedAsClaimed(calls[i].out.locals, calls[i].env.oracle.text, 1)

\* C8 amended: the number is looked for after the response's leading
\* whitespace; a response without a number there gives score 0 and the full
\* response, unchanged, as feedback.
C8_LeadingNumberAfterWhitespace ==
    \A i \in 1..Len(calls) :
        (criteria[i].type = "ai_review" /\ calls[i].env.oracle.kind = "ok") =>
            ParsedAsClaimed(calls[i].out.locals, calls[i].env.oracle.text,
                            RunLen(calls[i].env.oracle.text, 1, Whitespace) + 1)

\* A response with leading whitespace, a number and text was parsed into
\* the number and the text.
C8_Witness ==
    \E i \in 1..Len(calls) :
        /\ calls[i].env.oracle.kind = "ok"
        /\ calls[i].env.oracle.text # <<>>
        /\ calls[i].env.oracle.text[1] \in Whitespace
        /\ calls[i].out.locals.score = RInt(5)
        /\ calls[i].out.locals.feedback = <<"a">>

\* C9: without partial credit, a run that completes scores the full points
\* when the trimmed output equals the trimmed expected text and 0 otherwise.
C9_BinaryWithoutPartialCredit ==
    \A i \in 1..Len(calls) :
        ( /\ criteria[i].type = "output_match"
          /\ ~criteria[i].partial_credit
          /\ calls[i].env.run.kind = "completed" ) =>
            calls[i].out.locals.score =
                IF Strip(calls[i].env.run.stdout) = Strip(criteria[i].expected)
                THEN RInt(criteria[i].points)
                ELSE RInt(0)

\* Full points for an output that matches only once trimmed.
C9_Witness ==
    \E i \in 1..Len(calls) :
        /\ ~criteria[i].partial_credit
        /\ calls[i].env.run.kind = "completed"
        /\ calls[i].env.run.stdout # criteria[i].expected
        /\ criteria[i].expected # <<>>
        /\ criteria[i].points > 0
        /\ calls[i].out.locals.score = RInt(criteria[i].points)

\* The signals of C10 for the trimmed texts a (actual) and e (expected).
Signals(a, e) ==
    { Rat(IMax(Len(a), Len(e)) - Abs(Len(a) - Len(e)), IMax(Len(a), Len(e))) }
      \cup (IF Contains(a, e) THEN {Rat(4, 5)} ELSE {})
      \cup (IF WordSet(a) # {} /\ WordSet(e) # {}
            THEN {Rat(Cardinality(WordSet(a) \cap WordSet(e)),
                      Cardinality(WordSet(e)))}
            ELSE {})

\* C10: on a mismatch with partial credit the score is points x the largest
\* of the signals, hence at least 0.8 x points when expected is a substring
\* of actual.
C10_PartialCreditIsMaxSignal ==
    \A i \in 1..Len(calls) :
        LET a == Strip(calls[i].env.run.stdout)
            e == Strip(criteria[i].expected)
            score == calls[i].out.locals.score
        IN  ( /\ criteria[i].type = "output_match"
              /\ criteria[i].partial_credit
              /\ calls[i].env.run.kind = "completed"
              /\ a # e ) =>
                /\ \E sim \in Signals(a, e) :
                      /\ \A other \in Signals(a, e) : RLeq(other, sim)
                      /\ score = RMul(sim, RInt(criteria[i].points))
                /\ Contains(a, e) =>
                      RLeq(RMul(Rat(4, 5), RInt(criteria[i].points)), score)

\* Expected is inside a longer output with no word in common: 0.8 x points.
C10_Witness ==
    \E i \in 1..Len(calls) :
        LET a == Strip(calls[i].env.run.stdout)
            e == Strip(criteria[i].expected)
        IN  /\ criteria[i].partial_credit
            /\ calls[i].env.run.kind = "completed"
            /\ a # e
            /\ e # <<>>
            /\ Contains(a, e)
            /\ criteria[i].points = MaxPoints
            /\ calls[i].out.locals.score = RMul(Rat(4, 5), RInt(MaxPoints))

\* C11: whatever score the strategy returns, the result's score is that score
\* clamped into [0, points]: 0 for a negative one, points for one above the
\* points, the score itself otherwise.
C11_ClampedBothWays ==
    \A i \in 1..Len(calls) :
        LET returned == calls[i].out.locals.score
            points == RInt(criteria[i].points)
            score == calls[i].out.score
        IN  /\ RLess(returned, RInt(0)) => score = RInt(0)
            /\ RLess(points, returned) => score = points
            /\ (RLeq(RInt(0), returned) /\ RLeq(returned, points)) => score = returned

\* What the failure of a run says: the text of the exception subprocess.run
\* or open raised, or the traceback the crashed program left on stderr.
FailureText(run) == IF run.kind = "crashed" THEN "Traceback" ELSE "error"

\* C12: when executing the submission fails other than by timeout, whatever
\* it printed before, _check_output returns score 0 and a feedback that
\* includes the failure text.
C12_ExecutionFailureScoresZero ==
    \A i \in 1..Len(calls) :
        ( /\ criteria[i].type = "output_match"
          /\ calls[i].out.dispatched
          /\ calls[i].env.run.kind \in {"crashed", "error", "open_error"} ) =>
            /\ calls[i].out.locals.score = RInt(0)
            /\ \E k \in 1..Len(calls[i].out.locals.feedback) :
                  calls[i].out.locals.feedback[k] = FailureText(calls[i].env.run)

\* What the call of worker w returns when no other call runs.
Alone(w) ==
    _check_output(workers[w].criterion, Completed(StdoutOf(workers[w].code)))

\* C13: however the steps of two calls of _check_output interleave, each
\* call executes the submission text it was given and returns the score and
\* feedback it returns alone.
C13_InterleavingKeepsResults ==
    \A w \in DOMAIN workers :
        /\ workers[w].at \in {"remove", "compare", "done"} =>
              workers[w].executed = File(workers[w].code)
        /\ workers[w].at = "done" => workers[w].result = Alone(w)

\* The feedback says that every required element was found.
StatesAllFound(feedback) ==
    feedback \in {<<"All required elements found">>,
                  <<"All required Microbit elements found">>}

\* C14: for a syntax check on code that parses, the feedback names every
\* required element that is not satisfied, and it says that all required
\* elements were found only when every one is satisfied and the score is the
\* full points.
C14_FeedbackNamesUnsatisfied ==
    \A i \in 1..Len(calls) :
        ( /\ criteria[i].type \in SyntaxCheckTypes
          /\ Compiles(code) ) =>
            LET required == criteria[i].required_elements
                feedback == calls[i].out.locals.feedback
            IN  /\ \A k \in (1..Len(required)) \ Satisfied(criteria[i], code) :
                      \E j \in 1..Len(feedback) : feedback[j] = required[k]
                /\ StatesAllFound(feedback) =>
                      /\ Satisfied(criteria[i], code) = 1..Len(required)
                      /\ calls[i].out.locals.score = RInt(criteria[i].points)

\* Call i compared a trimmed output that differs from the trimmed expected
\* text, with partial credit and positive points.
PartialMismatch(i) ==
    /\ criteria[i].type = "output_match"
    /\ calls[i].out.dispatched
    /\ criteria[i].partial_credit
    /\ criteria[i].points > 0
    /\ calls[i].env.run.kind \in {"completed", "crashed"}
    /\ Strip(calls[i].env.run.stdout) # Strip(criteria[i].expected)

GradeEnded == grading.at \in {"done", "raised"}

\* In Codio, codio_send is called at most once, exactly once when grade()
\* has ended, before any call of notion_log, and with the grade that fits:
\* 0 after a failed verdict call, 100 when passes holds, 50 otherwise.
SentOnceWith(passes) ==
    grading.codio =>
        /\ Len(grading.sent) <= 1
        /\ GradeEnded => Len(grading.sent) = 1
        /\ grading.notion # <<>> => Len(grading.sent) = 1
        /\ grading.sent # <<>> =>
              grading.sent[1].grade =
                  IF grading.verdict.kind = "fail" THEN 0
                  ELSE IF passes THEN 100 ELSE 50

\* C16 as stated: in Codio every run of grade() sends a grade exactly once,
\* 0 when the verdict call fails, 100 when the verdict (what the verdict call
\* returned) begins with 'y' and 50 otherwise; failures of the feedback call
\* and of the Notion log neither prevent nor repeat the send, and notion_log
\* is only called after it.
C16_SendsOnceGradeByLeadingY ==
    SentOnceWith(StartsWith(call_openai(grading.verdict).text, "y"))

\* C16 amended: the same, the grade being 100 when the verdict begins with
\* 'y' or 'Y' (it is lowercased before the test).
C16_SendsOnceGradeByLoweredVerdict ==
    SentOnceWith(StartsWith(Lower(call_openai(grading.verdict).text), "y"))

\* A run in Codio whose verdict was a yes, whose feedback call failed and
\* whose Notion log raised has ended with the one send of 100.
C16_Witness ==
    /\ grading.codio
    /\ grading.at = "done"
    /\ grading.verdict.kind = "ok"
    /\ StartsWith(grading.yn, "y")
    /\ grading.feedback = <<"Unable to generate detailed feedback.">>
    /\ Len(grading.notion) = 1
    /\ grading.notion[1].outcome = "raises"
    /\ Len(grading.sent) = 1
    /\ grading.sent[1].grade = 100

====
